---- MODULE Spec2Model ----
(***************************************************************************)
(* Execution core of tauri-dbtools: the statement segmenter and classifier *)
(* of services/query_executor.rs, the sequential multi-statement executor  *)
(* and the transactional batch operations of                               *)
(* services/transaction_manager.rs, run against one PostgreSQL connection. *)
(*                                                                         *)
(* SQL text is a sequence of one-character strings.  Rust indices are      *)
(* 0-based: chars[i] of the source is chars[i + 1] here.                   *)
(***************************************************************************)
EXTENDS Integers, Sequences, FiniteSets, TLC

(***************************************************************************)
(* Text primitives (Rust str / char methods used by the services)         *)
(***************************************************************************)

\* char::is_whitespace, restricted to the blanks that occur in the inputs
Whitespace == {" ", "\n", "\t"}

\* number of bytes of the UTF-8 encoding of a character (str is UTF-8)
Utf8Len(c) == IF c \in {"é", "É"} THEN 2 ELSE 1

LowerLetters == <<"a","b","c","d","e","f","g","h","i","j","k","l","m","n",
                  "o","p","q","r","s","t","u","v","w","x","y","z","é">>
UpperLetters == <<"A","B","C","D","E","F","G","H","I","J","K","L","M","N",
                  "O","P","Q","R","S","T","U","V","W","X","Y","Z","É">>

\* char-wise str::to_uppercase
UpperChar(c) ==
    IF \E k \in 1..Len(LowerLetters) : LowerLetters[k] = c
    THEN UpperLetters[CHOOSE k \in 1..Len(LowerLetters) : LowerLetters[k] = c]
    ELSE c

\* the text as it is, letter case kept
ToUppercase_CaseKept(s) == s

\* str::to_uppercase
ToUppercase(s) == [k \in 1..Len(s) |-> UpperChar(s[k])]

RECURSIVE TrimStart(_)
TrimStart(s) ==
    IF s # <<>> /\ Head(s) \in Whitespace THEN TrimStart(Tail(s)) ELSE s

RECURSIVE TrimEnd(_)
TrimEnd(s) ==
    IF s # <<>> /\ s[Len(s)] \in Whitespace
    THEN TrimEnd(SubSeq(s, 1, Len(s) - 1)) ELSE s

\* str::trim
Trim(s) == TrimEnd(TrimStart(s))

\* str::starts_with
StartsWith(s, prefix) ==
    /\ Len(prefix) <= Len(s)
    /\ SubSeq(s, 1, Len(prefix)) = prefix

RECURSIVE ByteLen(_)
\* str::len: the length of the text in bytes (summed by halves, which keeps
\* the evaluation shallow)
ByteLen(s) ==
    IF Len(s) = 0 THEN 0
    ELSE IF Len(s) = 1 THEN Utf8Len(s[1])
    ELSE ByteLen(SubSeq(s, 1, Len(s) \div 2))
         + ByteLen(SubSeq(s, Len(s) \div 2 + 1, Len(s)))

RECURSIVE ByteOffsets(_)
\* the byte offset at which each character of s ends: the offsets that lie
\* on a character boundary, besides 0 (computed by halves)
ByteOffsets(s) ==
    IF Len(s) = 0 THEN <<>>
    ELSE IF Len(s) = 1 THEN <<Utf8Len(s[1])>>
    ELSE LET left == ByteOffsets(SubSeq(s, 1, Len(s) \div 2))
             right == ByteOffsets(SubSeq(s, Len(s) \div 2 + 1, Len(s)))
         IN  left \o [k \in 1..Len(right) |-> left[Len(left)] + right[k]]

\* &sql[a..b]: the slice between two BYTE offsets.  Slicing faults when an
\* offset is out of range or does not lie on a character boundary
\* (str::is_char_boundary).
Slice(s, a, b) ==
    LET ends == ByteOffsets(s)
        Boundary(x) == x = 0 \/ \E k \in 1..Len(s) : ends[k] = x
        \* the number of characters that end at or before byte offset x
        CharsBefore(x) == Cardinality({k \in 1..Len(s) : ends[k] <= x})
    IN  IF a <= b /\ b <= ByteLen(s) /\ Boundary(a) /\ Boundary(b)
        THEN [panic |-> FALSE,
              text |-> SubSeq(s, CharsBefore(a) + 1, CharsBefore(b))]
        ELSE [panic |-> TRUE, text |-> <<>>]

(***************************************************************************)
(* Statement segmenter: parse_sql_statements                              *)
(***************************************************************************)

\* the locals of parse_sql_statements before the loop; splits records the
\* indices i at which the separator branch ran (current_start = i + 1),
\* panic a slicing fault, returned that the function has returned statements
ScanInit ==
    [i |-> 0, current_start |-> 0, in_string |-> FALSE,
     in_line_comment |-> FALSE, in_block_comment |-> FALSE,
     escape_next |-> FALSE, statements |-> <<>>, splits |-> {},
     panic |-> FALSE, returned |-> FALSE]

\* the separator branch: push the trimmed slice when it is not empty
SplitAt(chars, st) ==
    LET sl == Slice(chars, st.current_start, st.i)
        statement == Trim(sl.text)
    IN  IF sl.panic THEN [st EXCEPT !.panic = TRUE]
        ELSE [st EXCEPT
                !.statements = IF statement # <<>> THEN Append(@, statement) ELSE @,
                !.splits = @ \cup {st.i},
                !.current_start = st.i + 1,
                !.i = st.i + 1]

\* the string-literal branch without the doubled quote: a quote inside a
\* string closes it
QuoteStep_NoDoubling(chars, st) ==
    IF st.in_string
    THEN [st EXCEPT !.in_string = FALSE, !.i = st.i + 1]
    ELSE [st EXCEPT !.in_string = TRUE, !.i = st.i + 1]

\* the string-literal branch: a quote opens a string, closes it, or is the
\* first half of a doubled quote
QuoteStep(chars, st) ==
    LET i == st.i
        len == Len(chars)
    IN  IF st.in_string
        THEN IF i + 1 < len /\ chars[i + 2] = "'"
             THEN [st EXCEPT !.i = i + 2]
             ELSE [st EXCEPT !.in_string = FALSE, !.i = i + 1]
        ELSE [st EXCEPT !.in_string = TRUE, !.i = i + 1]

\* the separator test without the scan state: any semicolon separates
IsSeparator_AnyState(ch, st) == ch = ";"

\* the condition of the separator branch
IsSeparator(ch, st) ==
    /\ ch = ";"
    /\ ~st.in_string /\ ~st.in_line_comment /\ ~st.in_block_comment

\* the loop body with a line comment that may start inside a string
ScanStep_CommentInString(chars, st) ==
    LET i == st.i
        len == Len(chars)
        ch == chars[i + 1]
    IN  IF st.escape_next
        THEN [st EXCEPT !.escape_next = FALSE, !.i = i + 1]
        ELSE IF /\ ~st.in_block_comment
                /\ i + 1 < len /\ ch = "-" /\ chars[i + 2] = "-"
        THEN [st EXCEPT !.in_line_comment = TRUE, !.i = i + 2]
        ELSE IF st.in_line_comment
        THEN [st EXCEPT !.in_line_comment = (ch # "\n"), !.i = i + 1]
        ELSE IF /\ ~st.in_string /\ ~st.in_line_comment
                /\ i + 1 < len /\ ch = "/" /\ chars[i + 2] = "*"
        THEN [st EXCEPT !.in_block_comment = TRUE, !.i = i + 2]
        ELSE IF st.in_block_comment
        THEN IF i + 1 < len /\ ch = "*" /\ chars[i + 2] = "/"
             THEN [st EXCEPT !.in_block_comment = FALSE, !.i = i + 2]
             ELSE [st EXCEPT !.i = i + 1]
        ELSE IF ch = "'" /\ ~st.in_line_comment /\ ~st.in_block_comment
        THEN QuoteStep(chars, st)
        ELSE IF st.in_string /\ ch = "\\"
        THEN [st EXCEPT !.escape_next = TRUE, !.i = i + 1]
        ELSE IF IsSeparator(ch, st)
        THEN SplitAt(chars, st)
        ELSE [st EXCEPT !.i = i + 1]

\* one iteration of the while loop, for st.i < Len(chars)
ScanStep(chars, st) ==
    LET i == st.i
        len == Len(chars)
        ch == chars[i + 1]
    IN  IF st.escape_next
        THEN [st EXCEPT !.escape_next = FALSE, !.i = i + 1]
        ELSE IF /\ ~st.in_string /\ ~st.in_block_comment
                /\ i + 1 < len /\ ch = "-" /\ chars[i + 2] = "-"
        THEN [st EXCEPT !.in_line_comment = TRUE, !.i = i + 2]
        ELSE IF st.in_line_comment
        THEN [st EXCEPT !.in_line_comment = (ch # "\n"), !.i = i + 1]
        ELSE IF /\ ~st.in_string /\ ~st.in_line_comment
                /\ i + 1 < len /\ ch = "/" /\ chars[i + 2] = "*"
        THEN [st EXCEPT !.in_block_comment = TRUE, !.i = i + 2]
        ELSE IF st.in_block_comment
        THEN IF i + 1 < len /\ ch = "*" /\ chars[i + 2] = "/"
             THEN [st EXCEPT !.in_block_comment = FALSE, !.i = i + 2]
             ELSE [st EXCEPT !.i = i + 1]
        ELSE IF ch = "'" /\ ~st.in_line_comment /\ ~st.in_block_comment
        THEN QuoteStep(chars, st)
        ELSE IF st.in_string /\ ch = "\\"
        THEN [st EXCEPT !.escape_next = TRUE, !.i = i + 1]
        ELSE IF IsSeparator(ch, st)
        THEN SplitAt(chars, st)
        ELSE [st EXCEPT !.i = i + 1]

\* the code after the loop: the remaining text is the last statement
ScanFinish(chars, st) ==
    LET sl == Slice(chars, st.current_start, ByteLen(chars))
        last_statement == Trim(sl.text)
    IN  IF sl.panic THEN [st EXCEPT !.panic = TRUE]
        ELSE [st EXCEPT
                !.statements =
                    IF last_statement # <<>> THEN Append(@, last_statement) ELSE @,
                !.returned = TRUE]

\* the loop body, run while the loop condition holds (a fault ends the scan)
ScanGuarded(chars, st) ==
    IF st.panic \/ st.i >= Len(chars) THEN st ELSE ScanStep(chars, st)

RECURSIVE ScanIterate(_, _, _)
\* n turns of the while loop (taken by halves, which keeps the evaluation
\* shallow)
ScanIterate(chars, st, n) ==
    IF n = 0 THEN st
    ELSE IF n = 1 THEN ScanGuarded(chars, st)
    ELSE LET mid == ScanIterate(chars, st, n \div 2)
         IN  IF mid.panic THEN mid
             ELSE ScanIterate(chars, mid, n - n \div 2)

\* the while loop, run to its end (every turn advances i, so Len(chars)
\* turns are enough), and the code after it
ScanFrom(chars, st) ==
    LET end == ScanIterate(chars, st, Len(chars))
    IN  IF end.panic THEN end ELSE ScanFinish(chars, end)

\* parse_sql_statements(sql): the statements, or a fault
parse_sql_statements(sql) == ScanFrom(sql, ScanInit)

(***************************************************************************)
(* Statement classifier: determine_query_type                             *)
(***************************************************************************)

QueryResultType == {"Select", "Insert", "Update", "Delete", "Ddl", "Error"}

RECURSIVE SkipToNewline(_, _)
\* the inner loop of the line-comment branch: while i < len && chars[i] != '\n'
SkipToNewline(chars, i) ==
    IF i < Len(chars) /\ chars[i + 1] # "\n" THEN SkipToNewline(chars, i + 1) ELSE i

RECURSIVE SkipBlockComment(_, _)
\* the inner loop of the block-comment branch: while i + 1 < len, leaving
\* the loop past the closing "*/"
SkipBlockComment(chars, i) ==
    IF i + 1 < Len(chars)
    THEN IF chars[i + 1] = "*" /\ chars[i + 2] = "/" THEN i + 2
         ELSE SkipBlockComment(chars, i + 1)
    ELSE i

RECURSIVE SkipLeading(_, _)
\* the outer loop: the index at which the loop is left
SkipLeading(chars, i) ==
    IF i < Len(chars)
    THEN IF chars[i + 1] \in Whitespace
         THEN SkipLeading(chars, i + 1)
         ELSE IF i + 1 < Len(chars) /\ chars[i + 1] = "-" /\ chars[i + 2] = "-"
         THEN SkipLeading(chars, SkipToNewline(chars, i) + 1)
         ELSE IF i + 1 < Len(chars) /\ chars[i + 1] = "/" /\ chars[i + 2] = "*"
         THEN SkipLeading(chars, SkipBlockComment(chars, i + 2))
         ELSE i
    ELSE i

kwSELECT == <<"S","E","L","E","C","T">>
kwWITH == <<"W","I","T","H">>
kwINSERT == <<"I","N","S","E","R","T">>
kwUPDATE == <<"U","P","D","A","T","E">>
kwDELETE == <<"D","E","L","E","T","E">>
kwCREATE == <<"C","R","E","A","T","E">>
kwALTER == <<"A","L","T","E","R">>
kwDROP == <<"D","R","O","P">>
kwTRUNCATE == <<"T","R","U","N","C","A","T","E">>

\* the keyword match on the text that follows the leading comments
MatchKeyword(sql_trimmed) ==
    IF StartsWith(sql_trimmed, kwSELECT) \/ StartsWith(sql_trimmed, kwWITH)
    THEN "Select"
    ELSE IF StartsWith(sql_trimmed, kwINSERT) THEN "Insert"
    ELSE IF StartsWith(sql_trimmed, kwUPDATE) THEN "Update"
    ELSE IF StartsWith(sql_trimmed, kwDELETE) THEN "Delete"
    ELSE IF \/ StartsWith(sql_trimmed, kwCREATE) \/ StartsWith(sql_trimmed, kwALTER)
            \/ StartsWith(sql_trimmed, kwDROP) \/ StartsWith(sql_trimmed, kwTRUNCATE)
    THEN "Ddl"
    ELSE "Error"

\* determine_query_type(sql): a QueryResultType, or "Panic" when the slice
\* chars[i..] is taken with i beyond the end of chars
determine_query_type(sql) ==
    LET chars == ToUppercase(Trim(sql))
        i == SkipLeading(chars, 0)
    IN  IF i > Len(chars) THEN "Panic"
        ELSE MatchKeyword(SubSeq(chars, i + 1, Len(chars)))

(***************************************************************************)
(* Result model: models/query.rs and models/data.rs                       *)
(* Option<T> is a sequence: None is << >>, Some(x) is << x >>.            *)
(* duration_ms (wall clock) is left out of QueryResult.                    *)
(***************************************************************************)

None == << >>
Some(x) == << x >>

\* QueryResult::select(columns, rows, _)
QR_select(columns, rows) ==
    [result_type |-> "Select", columns |-> Some(columns), rows |-> Some(rows),
     affected_rows |-> None, error |-> None, error_position |-> None]

\* QueryResult::dml(result_type, affected_rows, _)
QR_dml(result_type, affected_rows) ==
    [result_type |-> result_type, columns |-> None, rows |-> None,
     affected_rows |-> Some(affected_rows), error |-> None,
     error_position |-> None]

\* QueryResult::ddl(_)
QR_ddl ==
    [result_type |-> "Ddl", columns |-> None, rows |-> None,
     affected_rows |-> None, error |-> None, error_position |-> None]

\* QueryResult::error(error, error_position, _)
QR_error(error, error_position) ==
    [result_type |-> "Error", columns |-> None, rows |-> None,
     affected_rows |-> None, error |-> Some(error),
     error_position |-> error_position]

\* BatchOperationResponse::success(rows_affected)
BatchOperationResponse_success(rows_affected) ==
    [success |-> TRUE, rows_affected |-> rows_affected, error |-> None]

\* BatchOperationResponse::error(error)
BatchOperationResponse_error(error) ==
    [success |-> FALSE, rows_affected |-> 0, error |-> Some(error)]

(***************************************************************************)
(* The database engine behind tokio_postgres::Client, as the services use  *)
(* it: one table s.t with a key column k and a column v (default 0).       *)
(* A table is a set of rows <<k, v>> with distinct keys.                   *)
(***************************************************************************)

Keys == {1, 2}
Vals == {0, 1}

Tables == {T \in SUBSET (Keys \X Vals) :
              \A r1 \in T, r2 \in T : r1[1] = r2[1] => r1 = r2}

\* an error of tokio_postgres: a database error carries an SQLSTATE code
\* and may carry a position; a connection error carries neither
DbError(code, message, position) ==
    [code |-> code, message |-> message, position |-> position]

ConnectionClosed == DbError("", "connection closed", None)

\* the error slot of a call that succeeded
NoError == DbError("", "", None)

HasKey(T, k) == \E r \in T : r[1] = k

DigitChar(n) == <<"0","1","2","3","4","5","6","7","8","9">>[n + 1]

txSelect == <<"S","E","L","E","C","T"," ","*"," ","F","R","O","M"," ","s",".","t">>
txInsertHead == <<"I","N","S","E","R","T"," ","I","N","T","O"," ","s",".","t"," ","(","k",")"," ","V","A","L","U","E","S"," ","(">>
txUpdateAll == <<"U","P","D","A","T","E"," ","s",".","t"," ","S","E","T"," ","v"," ","="," ","1">>
txUpdateHead == <<"U","P","D","A","T","E"," ","s",".","t"," ","S","E","T"," ","v"," ","="," ","1"," ","W","H","E","R","E"," ","k"," ","="," ">>
txUpdateBadHead == <<"U","P","D","A","T","E"," ","s",".","t"," ","S","E","T"," ","x"," ","="," ","1"," ","W","H","E","R","E"," ","k"," ","="," ">>
txDeleteHead == <<"D","E","L","E","T","E"," ","F","R","O","M"," ","s",".","t"," ","W","H","E","R","E"," ","k"," ","="," ">>
txTruncate == <<"T","R","U","N","C","A","T","E"," ","s",".","t">>
txBegin == <<"B","E","G","I","N">>
txCommit == <<"C","O","M","M","I","T">>
txRollback == <<"R","O","L","L","B","A","C","K">>
txComment == <<"-","-"," ","c">>

\* what the engine understands a statement text to ask for; any other text
\* is a syntax error
Meaning(stmt) ==
    IF stmt = txSelect THEN [verb |-> "select", key |-> 0]
    ELSE IF stmt = txUpdateAll THEN [verb |-> "update_all", key |-> 0]
    ELSE IF stmt = txTruncate THEN [verb |-> "truncate", key |-> 0]
    ELSE IF stmt = txBegin THEN [verb |-> "begin", key |-> 0]
    ELSE IF stmt = txCommit THEN [verb |-> "commit", key |-> 0]
    ELSE IF stmt = txRollback THEN [verb |-> "rollback", key |-> 0]
    ELSE IF \E k \in Keys : stmt = txInsertHead \o <<DigitChar(k), ")">>
    THEN [verb |-> "insert",
          key |-> CHOOSE k \in Keys : stmt = txInsertHead \o <<DigitChar(k), ")">>]
    ELSE IF \E k \in Keys : stmt = txUpdateHead \o <<DigitChar(k)>>
    THEN [verb |-> "update",
          key |-> CHOOSE k \in Keys : stmt = txUpdateHead \o <<DigitChar(k)>>]
    ELSE IF \E k \in Keys : stmt = txUpdateBadHead \o <<DigitChar(k)>>
    THEN [verb |-> "undefined_column", key |-> 0]
    ELSE IF \E k \in Keys : stmt = txDeleteHead \o <<DigitChar(k)>>
    THEN [verb |-> "delete",
          key |-> CHOOSE k \in Keys : stmt = txDeleteHead \o <<DigitChar(k)>>]
    ELSE [verb |-> "syntax_error", key |-> 0]

\* the effect of a data statement on the table the session sees: ok, the
\* affected-row count, the returned rows, the table afterwards, and the
\* engine's error message when it is rejected
Apply(m, T) ==
    LET Accept(n, rows, T2) == [ok |-> TRUE, affected |-> n, rows |-> rows,
                            table |-> T2, error |-> NoError]
        Reject(e) == [ok |-> FALSE, affected |-> 0, rows |-> {}, table |-> T,
                   error |-> e]
    IN  CASE m.verb = "select" -> Accept(0, T, T)
          [] m.verb = "insert" ->
                IF HasKey(T, m.key)
                THEN Reject(DbError("23505", "duplicate key value", None))
                ELSE Accept(1, {}, T \cup {<<m.key, 0>>})
          [] m.verb = "update" ->
                Accept(Cardinality({r \in T : r[1] = m.key}), {},
                   {IF r[1] = m.key THEN <<r[1], 1>> ELSE r : r \in T})
          [] m.verb = "update_all" ->
                Accept(Cardinality(T), {}, {<<r[1], 1>> : r \in T})
          [] m.verb = "delete" ->
                Accept(Cardinality({r \in T : r[1] = m.key}), {},
                   {r \in T : r[1] # m.key})
          [] m.verb = "truncate" -> Accept(0, {}, {})
          [] m.verb = "undefined_column" ->
                Reject(DbError("42703", "column does not exist", Some(18)))
          [] OTHER -> Reject(DbError("42601", "syntax error", Some(1)))

\* the session of the cached client: the committed table db, the table
\* work seen inside an open transaction, the transaction state and the
\* state of the connection
Session(d, w, t, c) == [db |-> d, work |-> w, txn |-> t, conn |-> c]

Reply(ok, affected, rows, error, S) ==
    [ok |-> ok, affected |-> affected, rows |-> rows, error |-> error,
     session |-> S]

\* the connection is lost during a call: the call fails, the server
\* discards an open transaction
ConnectionLoss(S) ==
    Reply(FALSE, 0, {}, ConnectionClosed, Session(S.db, S.db, "none", "broken"))

\* BEGIN, COMMIT and ROLLBACK
TxnOutcomes(verb, S) ==
    CASE verb = "begin" ->
            {Reply(TRUE, 0, {}, NoError,
                   IF S.txn = "none" THEN Session(S.db, S.db, "open", "ok") ELSE S),
             ConnectionLoss(S)}
      [] verb = "commit" ->
            IF S.txn = "open"
            THEN {Reply(TRUE, 0, {}, NoError,
                        Session(S.work, S.work, "none", "ok")),
                  \* the commit is refused: the transaction is rolled back
                  Reply(FALSE, 0, {},
                        DbError("40001", "could not serialize access", None),
                        Session(S.db, S.db, "none", "ok")),
                  ConnectionLoss(S),
                  \* the connection is lost after the server has committed
                  Reply(FALSE, 0, {}, ConnectionClosed,
                        Session(S.work, S.work, "none", "broken"))}
            ELSE {Reply(TRUE, 0, {}, NoError,
                        Session(S.db, S.db, "none", "ok")),
                  ConnectionLoss(S)}
      [] OTHER ->
            {Reply(TRUE, 0, {}, NoError, Session(S.db, S.db, "none", "ok")),
             ConnectionLoss(S)}

\* a data statement: it acts on the table the session sees, and outside a
\* transaction its effect is committed at once (autocommit); an error
\* inside a transaction aborts the transaction
DataOutcomes(m, S) ==
    LET seen == IF S.txn = "open" THEN S.work ELSE S.db
        a == Apply(m, seen)
        Failed(e) == Reply(FALSE, 0, {}, e,
                           IF S.txn = "none" THEN S
                           ELSE Session(S.db, S.db, "aborted", "ok"))
    IN  IF S.txn = "aborted"
        THEN {Failed(DbError("25P02", "current transaction is aborted", None)),
              ConnectionLoss(S)}
        ELSE {IF a.ok
              THEN Reply(TRUE, a.affected, a.rows, NoError,
                         IF S.txn = "open"
                         THEN Session(S.db, a.table, "open", "ok")
                         ELSE Session(a.table, a.table, "none", "ok"))
              ELSE Failed(a.error),
              \* the statement is cancelled (lock or statement timeout)
              Failed(DbError("57014", "canceling statement due to timeout", None)),
              ConnectionLoss(S)}

\* every way the engine can answer client.query(sql) / client.execute(sql)
EngineOutcomes(sql, S) ==
    LET m == Meaning(sql)
    IN  IF S.conn = "broken" THEN {Reply(FALSE, 0, {}, ConnectionClosed, S)}
        ELSE IF m.verb \in {"begin", "commit", "rollback"}
        THEN TxnOutcomes(m.verb, S)
        ELSE DataOutcomes(m, S)

(***************************************************************************)
(* Error translation: format_error_message and extract_error_position     *)
(* A message is the sequence of the parts that format! concatenates.       *)
(***************************************************************************)

RECURSIVE Decimal(_)
\* the decimal text of a natural number ({} of format!)
Decimal(n) == IF n < 10 THEN <<DigitChar(n)>>
              ELSE Decimal(n \div 10) \o <<DigitChar(n % 10)>>

\* the friendly text of the SQLSTATE codes the engine model raises ("" when
\* the code is not in the table of format_error_message)
Friendly(code) ==
    CASE code = "23505" -> "Unique constraint violation: This value already exists in the database"
      [] code = "42601" -> "Syntax error: The SQL statement has invalid syntax"
      [] code = "42703" -> "Column does not exist: The specified column was not found"
      [] code = "40001" -> "Serialization failure: The transaction was rolled back due to concurrent access"
      [] code = "25P02" -> "Transaction failed: The current transaction has failed and must be rolled back"
      [] OTHER -> ""

format_error_message(e) ==
    IF e.code # ""
    THEN IF Friendly(e.code) # ""
         THEN <<Friendly(e.code), "\n\nTechnical details: ", e.message,
                " (Error code: ", e.code, ")">>
         ELSE <<e.message, " (Error code: ", e.code, ")">>
    ELSE <<e.message>>

\* the position is reported on line 1, the character offset as the column
extract_error_position(e) ==
    IF e.code # "" /\ e.position # None
    THEN Some([line |-> 1, column |-> e.position[1]])
    ELSE None

\* Display of a tokio_postgres::Error ({} of format! in the batch messages)
ErrorText(e) ==
    IF e.code # "" THEN <<"db error: ", e.message>> ELSE <<e.message>>

(***************************************************************************)
(* State                                                                   *)
(***************************************************************************)

VARIABLES
    session,        \* the database and the cached connection (Session)
    pc,             \* "idle", "await" (an engine call is in flight), "done", "panicked"
    cmd,            \* the operation in progress
    input,          \* execute_sql: the SQL text, as the pieces it is made of
                    \* (classifier run: the parts of the statement text)
    items,          \* batch operations: the item list
                    \* (formatter run: the value given to format_value)
    pending,        \* the engine call in flight
    index,          \* 0-based index of the statement or item being executed
    total_affected, \* total_affected_rows / total_affected
    last_result,    \* last_result of execute_multiple_statements
    fail_msg,       \* the message to return once the ROLLBACK has been answered
    result,         \* the value returned by the operation
    calls,          \* the engine calls of the operation so far, in issue order
    pre,            \* the committed table when the operation was called
    text,           \* segmenter run: the text given to parse_sql_statements
    scan,           \* segmenter run: the locals of parse_sql_statements
    tasks,          \* command run: the commands invoked, each one a task
    guard,          \* command run: the task that holds the lock of
                    \* AppState.connections, 0 when it is free
    connected,      \* command run: the connection table holds the client
    wire            \* command run: what was sent on the cached connection

vars == <<session, pc, cmd, input, items, pending, index, total_affected,
          last_result, fail_msg, result, calls, pre, text, scan,
          tasks, guard, connected, wire>>

cmdVars == <<tasks, guard, connected, wire>>

coreVars == <<session, pc, cmd, input, items, pending, index, total_affected,
              last_result, fail_msg, result, calls, pre, text, scan>>

MaxCmds == 2

\* the commands invoked, as tasks of the runtime
Tasks == 1..MaxCmds

\* AppState::new(): no connection is cached, nobody holds the lock
InitCmdVars ==
    /\ tasks = [t \in Tasks |-> [cmd |-> "none", at |-> "start", script |-> <<>>]]
    /\ guard = 0
    /\ connected = FALSE
    /\ wire = <<>>

segVars == <<text, scan>>

NoCall == [api |-> "none", sql |-> <<>>, kind |-> "none", what |-> "none"]

\* where control is after a run of code between two awaits
Ctl(p, call, idx, total, last, res) ==
    [pc |-> p, pending |-> call, index |-> idx, total |-> total,
     last |-> last, result |-> res, fail |-> <<>>]

Done(idx, total, last, r) == Ctl("done", NoCall, idx, total, last, Some(r))

\* the control variables take the values of ctl; the call it issues, if
\* any, is appended to the log (log is the log with the answer recorded)
Continue(ctl, log) ==
    /\ pc' = ctl.pc
    /\ pending' = ctl.pending
    /\ index' = ctl.index
    /\ total_affected' = ctl.total
    /\ last_result' = ctl.last
    /\ result' = ctl.result
    /\ fail_msg' = ctl.fail
    /\ calls' = IF ctl.pc = "await"
                THEN Append(log, [what |-> ctl.pending.what,
                                  index |-> IF ctl.pending.what = "statement"
                                            THEN ctl.index + 1 ELSE 0,
                                  kind |-> ctl.pending.kind,
                                  ok |-> "pending", affected |-> 0,
                                  error |-> NoError])
                ELSE log

\* the log with the answer o to the call in flight recorded
Answered(o) ==
    [calls EXCEPT ![Len(calls)] =
        [@ EXCEPT !.ok = IF o.ok THEN "ok" ELSE "error",
                  !.affected = o.affected, !.error = o.error]]

(***************************************************************************)
(* Execution engine: execute_sql of services/query_executor.rs            *)
(***************************************************************************)

MaxStmts == 3

\* the statements the SQL texts are made of; piece 1 is an empty statement
Pieces ==
    << <<>>,
       txInsertHead \o <<"1", ")">>,
       txUpdateAll,
       txSelect,
       txTruncate,
       txBegin,
       txComment >>

ExecInputs == UNION {[1..n -> 1..Len(Pieces)] : n \in 0..MaxStmts}

RECURSIVE TextOf(_)
\* the SQL text: the pieces, with "; " between them
TextOf(inp) ==
    IF inp = <<>> THEN <<>>
    ELSE IF Len(inp) = 1 THEN Pieces[inp[1]]
    ELSE Pieces[inp[1]] \o <<";", " ">> \o TextOf(Tail(inp))

\* let sql = sql.trim(); let statements = parse_sql_statements(sql)
Segmented ==
    [inp \in ExecInputs |-> parse_sql_statements(Trim(TextOf(inp)))] @@ <<>>

Columns == <<"k", "v">>

\* execute_select / execute_dml / execute_ddl: the result made of the
\* engine's answer to the statement
StatementResult(kind, reply) ==
    IF reply.ok
    THEN IF kind = "Select"
         THEN IF reply.rows = {} THEN QR_select(<<>>, {})
              ELSE QR_select(Columns, reply.rows)
         ELSE IF kind = "Ddl" THEN QR_ddl
         ELSE QR_dml(kind, reply.affected)
    ELSE QR_error(format_error_message(reply.error),
                  extract_error_position(reply.error))

\* Option::unwrap_or_default of result.error
unwrap_or_default(opt) == IF opt = None THEN <<>> ELSE opt[1]

\* the Error result is returned under the 0-based index of the statement
ExecErrorReturn_ZeroBased(multi, idx, total, last, r) ==
    IF multi
    THEN Done(idx, total, last,
              QR_error(<<"Error in statement ">> \o Decimal(idx) \o <<": ">>
                           \o unwrap_or_default(r.error),
                       r.error_position))
    ELSE Done(idx, total, last, r)

\* a statement returned the Error result r: execute_single_statement
\* returns it as it is, execute_multiple_statements stops and returns it
\* under the index of the statement
ExecErrorReturn(multi, idx, total, last, r) ==
    IF multi
    THEN Done(idx, total, last,
              QR_error(<<"Error in statement ">> \o Decimal(idx + 1) \o <<": ">>
                           \o unwrap_or_default(r.error),
                       r.error_position))
    ELSE Done(idx, total, last, r)

\* every turn of the loop executes the first statement of the list
ExecEnter_FirstStatement(stmts, multi, idx, total, last) ==
    LET query_type == determine_query_type(stmts[1])
    IN  IF query_type = "Panic"
        THEN Ctl("panicked", NoCall, idx, total, last, None)
        ELSE IF query_type = "Error"
        THEN ExecErrorReturn(multi, idx, total, last,
                             QR_error(<<"Unable to determine query type">>, None))
        ELSE Ctl("await",
                 [api |-> IF query_type = "Select" THEN "query" ELSE "execute",
                  sql |-> stmts[1], kind |-> query_type,
                  what |-> "statement"],
                 idx, total, last, None)

\* a statement of no known kind is sent to the engine all the same
ExecEnter_SendsUnclassified(stmts, multi, idx, total, last) ==
    LET query_type == determine_query_type(stmts[idx + 1])
    IN  IF query_type = "Panic"
        THEN Ctl("panicked", NoCall, idx, total, last, None)
        ELSE Ctl("await",
                 [api |-> IF query_type = "Select" THEN "query" ELSE "execute",
                  sql |-> stmts[idx + 1],
                  kind |-> IF query_type = "Error" THEN "Ddl" ELSE query_type,
                  what |-> "statement"],
                 idx, total, last, None)

\* execute_single_statement up to its engine call
ExecEnter(stmts, multi, idx, total, last) ==
    LET query_type == determine_query_type(stmts[idx + 1])
    IN  IF query_type = "Panic"
        THEN Ctl("panicked", NoCall, idx, total, last, None)
        ELSE IF query_type = "Error"
        THEN ExecErrorReturn(multi, idx, total, last,
                             QR_error(<<"Unable to determine query type">>, None))
        ELSE Ctl("await",
                 [api |-> IF query_type = "Select" THEN "query" ELSE "execute",
                  sql |-> stmts[idx + 1], kind |-> query_type,
                  what |-> "statement"],
                 idx, total, last, None)

\* the last result is returned as the last statement made it
ExecFinish_LastOnly(idx, total, last) ==
    IF last # None THEN Done(idx, total, last, last[1])
    ELSE Done(idx, total, last, QR_error(<<"No statements to execute">>, None))

\* the accumulated count is put on the last result whatever its kind
ExecFinish_AnyKind(idx, total, last) ==
    IF last # None
    THEN Done(idx, total, last,
              [last[1] EXCEPT !.affected_rows = IF total > 0 THEN Some(total) ELSE @])
    ELSE Done(idx, total, last, QR_error(<<"No statements to execute">>, None))

\* the end of execute_multiple_statements: the last result, with the
\* accumulated count when there is one
ExecFinish(idx, total, last) ==
    IF last # None
    THEN Done(idx, total, last,
              [last[1] EXCEPT !.affected_rows =
                  IF total > 0 /\ @ # None THEN Some(total) ELSE @])
    ELSE Done(idx, total, last, QR_error(<<"No statements to execute">>, None))

\* the head of the for loop of execute_multiple_statements
ExecLoop(stmts, idx, total, last) ==
    IF idx < Len(stmts) THEN ExecEnter(stmts, TRUE, idx, total, last)
    ELSE ExecFinish(idx, total, last)

\* the loop goes on to the next statement whatever the result
ExecAfter_ContinuesAfterError(stmts, multi, idx, total, last, r) ==
    IF ~multi THEN Done(idx, total, last, r)
    ELSE ExecLoop(stmts, idx + 1,
                  total + (IF r.affected_rows # None THEN r.affected_rows[1] ELSE 0),
                  Some(r))

\* the counts of the statements are not added up
ExecAfter_NoAccumulate(stmts, multi, idx, total, last, r) ==
    IF ~multi THEN Done(idx, total, last, r)
    ELSE IF r.result_type = "Error"
    THEN ExecErrorReturn(TRUE, idx, total, last, r)
    ELSE ExecLoop(stmts, idx + 1, total, Some(r))

\* the code that follows the result r of statement idx
ExecAfter(stmts, multi, idx, total, last, r) ==
    IF ~multi THEN Done(idx, total, last, r)
    ELSE IF r.result_type = "Error"
    THEN ExecErrorReturn(TRUE, idx, total, last, r)
    ELSE ExecLoop(stmts, idx + 1,
                  total + (IF r.affected_rows # None THEN r.affected_rows[1] ELSE 0),
                  Some(r))

\* execute_sql without the test of the trimmed text
ExecStart_NoEmptyCheck(inp) ==
    LET parsed == Segmented[inp]
        statements == parsed.statements
    IN  IF parsed.panic THEN Ctl("panicked", NoCall, 0, 0, None, None)
        ELSE IF Len(statements) = 1
        THEN ExecEnter(statements, FALSE, 0, 0, None)
        ELSE ExecLoop(statements, 0, 0, None)

\* execute_sql from its entry to its first engine call
ExecStart(inp) ==
    LET parsed == Segmented[inp]
        statements == parsed.statements
    IN  IF Trim(TextOf(inp)) = <<>>
        THEN Done(0, 0, None, QR_error(<<"SQL statement is empty">>, None))
        ELSE IF parsed.panic THEN Ctl("panicked", NoCall, 0, 0, None, None)
        ELSE IF Len(statements) = 1
        THEN ExecEnter(statements, FALSE, 0, 0, None)
        ELSE ExecLoop(statements, 0, 0, None)

\* the command execute_sql is invoked with the text of inp
ExecuteSql ==
    /\ pc = "idle"
    /\ \E inp \in ExecInputs :
          /\ input' = inp
          /\ Continue(ExecStart(inp), <<>>)
    /\ cmd' = "execute_sql"
    /\ pre' = session.db
    /\ UNCHANGED <<session, items, segVars>>
    /\ UNCHANGED cmdVars

\* the engine answers the statement in flight and execute_sql runs on
ExecReply ==
    /\ pc = "await"
    /\ cmd = "execute_sql"
    /\ \E o \in EngineOutcomes(pending.sql, session) :
          LET statements == Segmented[input].statements
              r == StatementResult(pending.kind, o)
          IN  /\ session' = o.session
              /\ Continue(ExecAfter(statements, Len(statements) # 1, index,
                                    total_affected, last_result, r),
                          Answered(o))
    /\ UNCHANGED <<cmd, input, items, pre, segVars>>
    /\ UNCHANGED cmdVars

(***************************************************************************)
(* Batch mutation engine: services/transaction_manager.rs                 *)
(* A serde_json::Value is a record; a HashMap is the sequence of its       *)
(* <<column, value>> entries in iteration order.  The messages, Chinese  *)
(* in the source, are given in English.                                    *)
(***************************************************************************)

JNull == [type |-> "null", bool |-> FALSE, num |-> 0, str |-> <<>>]
JBool(b) == [type |-> "bool", bool |-> b, num |-> 0, str |-> <<>>]
JNumber(n) == [type |-> "number", bool |-> FALSE, num |-> n, str |-> <<>>]
JString(str) == [type |-> "string", bool |-> FALSE, num |-> 0, str |-> str]
\* an array or object, given by its JSON text (value.to_string())
JStructured(json) == [type |-> "structured", bool |-> FALSE, num |-> 0, str |-> json]

\* the text as it is, quotes kept single
ReplaceQuotes_None(str) == str

RECURSIVE ReplaceQuotes(_)
\* s.replace("'", "''")
ReplaceQuotes(str) ==
    IF str = <<>> THEN <<>>
    ELSE (IF Head(str) = "'" THEN <<"'", "'">> ELSE <<Head(str)>>)
         \o ReplaceQuotes(Tail(str))

format_value(value) ==
    CASE value.type = "null" -> <<"N","U","L","L">>
      [] value.type = "bool" -> IF value.bool THEN <<"t","r","u","e">> ELSE <<"f","a","l","s","e">>
      [] value.type = "number" -> Decimal(value.num)
      [] OTHER -> <<"'">> \o ReplaceQuotes(value.str) \o <<"'">>

RECURSIVE Join(_, _)
\* [String]::join(sep)
Join(strs, sep) ==
    IF strs = <<>> THEN <<>>
    ELSE IF Len(strs) = 1 THEN strs[1]
    ELSE strs[1] \o sep \o Join(Tail(strs), sep)

\* the clauses format!("{} = {}", col, format_value(val)) of a map
EqClauses(map) ==
    [n \in 1..Len(map) |-> map[n][1] \o <<" ","="," ">> \o format_value(map[n][2])]

Ok(sql) == [ok |-> TRUE, sql |-> sql, err |-> ""]
Err(e) == [ok |-> FALSE, sql |-> <<>>, err |-> e]

build_update_statement(schema, table, update) ==
    IF update.changes = <<>> THEN Err("no fields to update")
    ELSE IF update.primary_key = <<>> THEN Err("the primary key must not be empty")
    ELSE Ok(<<"U","P","D","A","T","E"," ">> \o schema \o <<".">> \o table \o <<" ","S","E","T"," ">>
            \o Join(EqClauses(update.changes), <<","," ">>) \o <<" ","W","H","E","R","E"," ">>
            \o Join(EqClauses(update.primary_key), <<" ","A","N","D"," ">>))

build_insert_statement(schema, table, row) ==
    IF row = <<>> THEN Err("no data to insert")
    ELSE Ok(<<"I","N","S","E","R","T"," ","I","N","T","O"," ">> \o schema \o <<".">> \o table \o <<" ","(">>
            \o Join([n \in 1..Len(row) |-> row[n][1]], <<","," ">>) \o <<")"," ","V","A","L","U","E","S"," ","(">>
            \o Join([n \in 1..Len(row) |-> format_value(row[n][2])], <<","," ">>)
            \o <<")">>)

build_delete_statement(schema, table, primary_key) ==
    IF primary_key = <<>> THEN Err("the primary key must not be empty")
    ELSE Ok(<<"D","E","L","E","T","E"," ","F","R","O","M"," ">> \o schema \o <<".">> \o table \o <<" ","W","H","E","R","E"," ">>
            \o Join(EqClauses(primary_key), <<" ","A","N","D"," ">>))

MaxItems == 2

\* the maps the items are made of: an empty map, the key of row 1 or 2
PkMaps == {<<>>, << <<<<"k">>, JNumber(1)>> >>, << <<<<"k">>, JNumber(2)>> >>}
\* no change, v = 1, or a value for the column x, which s.t does not have
ChangeMaps == {<<>>, << <<<<"v">>, JNumber(1)>> >>, << <<<<"x">>, JNumber(1)>> >>}

ItemsOf(op) ==
    CASE op = "batch_update_rows" ->
            {[primary_key |-> pk, changes |-> ch] : pk \in PkMaps, ch \in ChangeMaps}
      [] OTHER -> PkMaps

BatchOps == {"batch_update_rows", "batch_insert_rows", "batch_delete_rows"}

BatchInputs(op) == UNION {[1..n -> ItemsOf(op)] : n \in 0..MaxItems}

schema == <<"s">>
table == <<"t">>

\* the words of the messages of the three operations
Verb(op) ==
    CASE op = "batch_update_rows" -> [zh |-> "update", sql |-> "UPDATE"]
      [] op = "batch_insert_rows" -> [zh |-> "insert", sql |-> "INSERT"]
      [] OTHER -> [zh |-> "delete", sql |-> "DELETE"]

Build(op, item) ==
    CASE op = "batch_update_rows" -> build_update_statement(schema, table, item)
      [] op = "batch_insert_rows" -> build_insert_statement(schema, table, item)
      [] OTHER -> build_delete_statement(schema, table, item)

BatchCall(what, sql) ==
    [api |-> IF what = "statement" THEN "execute" ELSE "query", sql |-> sql,
     kind |-> "none", what |-> what]

\* the running total keeps the count of the last item only
Accumulate_LastOnly(total, affected) == affected

\* total_affected += affected
Accumulate(total, affected) == total + affected

\* msg is returned at once, without a ROLLBACK
BatchRollback_ReturnsAtOnce(idx, total, msg) ==
    Ctl("done", NoCall, idx, total, None, Some(BatchOperationResponse_error(msg)))

\* client.query("ROLLBACK"); msg is returned once it has been answered
BatchRollback(idx, total, msg) ==
    [Ctl("await", BatchCall("ROLLBACK", txRollback), idx, total, None, None)
        EXCEPT !.fail = msg]

\* the response carries the count accumulated so far
BatchDone_PartialCount(idx, total, r) ==
    Ctl("done", NoCall, idx, total, None, Some([r EXCEPT !.rows_affected = total]))

BatchDone(idx, total, r) == Ctl("done", NoCall, idx, total, None, Some(r))

\* an item that cannot be built ends the operation without a ROLLBACK
BatchLoop_NoRollback(op, its, idx, total) ==
    IF idx < Len(its)
    THEN LET b == Build(op, its[idx + 1])
         IN  IF b.ok
             THEN Ctl("await", BatchCall("statement", b.sql), idx, total, None, None)
             ELSE BatchDone(idx, total, BatchOperationResponse_error(
                     <<"building the ", Verb(op).sql, " statement failed: ", b.err>>))
    ELSE Ctl("await", BatchCall("COMMIT", txCommit), idx, total, None, None)

\* the loop ends one item early
BatchLoop_CommitsEarly(op, its, idx, total) ==
    IF idx + 1 < Len(its)
    THEN LET b == Build(op, its[idx + 1])
         IN  IF b.ok
             THEN Ctl("await", BatchCall("statement", b.sql), idx, total, None, None)
             ELSE BatchRollback(idx, total,
                                <<"building the ", Verb(op).sql, " statement failed: ", b.err>>)
    ELSE Ctl("await", BatchCall("COMMIT", txCommit), idx, total, None, None)

\* the head of the for loop over the items, then the COMMIT
BatchLoop(op, its, idx, total) ==
    IF idx < Len(its)
    THEN LET b == Build(op, its[idx + 1])
         IN  IF b.ok
             THEN Ctl("await", BatchCall("statement", b.sql), idx, total, None, None)
             ELSE BatchRollback(idx, total,
                                <<"building the ", Verb(op).sql, " statement failed: ", b.err>>)
    ELSE Ctl("await", BatchCall("COMMIT", txCommit), idx, total, None, None)

\* the code that follows the answer o to the call in flight
BatchAfter(op, its, call, idx, total, fail, o) ==
    CASE call.what = "BEGIN" ->
            IF o.ok THEN BatchLoop(op, its, 0, 0)
            ELSE BatchDone(idx, total, BatchOperationResponse_error(
                            <<"cannot begin the transaction: ">> \o ErrorText(o.error)))
      [] call.what = "statement" ->
            IF o.ok THEN BatchLoop(op, its, idx + 1, Accumulate(total, o.affected))
            ELSE BatchRollback(idx, total,
                    <<Verb(op).zh, " operation ">> \o Decimal(idx + 1) \o <<" failed: ">>
                        \o ErrorText(o.error) \o <<". All changes have been rolled back">>)
      [] call.what = "COMMIT" ->
            IF o.ok THEN BatchDone(idx, total, BatchOperationResponse_success(total))
            ELSE BatchRollback(idx, total,
                    <<"committing the transaction failed: ">> \o ErrorText(o.error)
                        \o <<". All changes have been rolled back">>)
      [] OTHER ->
            \* let _ = client.query("ROLLBACK"): the answer is not looked at
            BatchDone(idx, total, BatchOperationResponse_error(fail))

\* the transaction is begun whatever the item list
BatchStart_NoEmptyCheck(op, its) ==
    Ctl("await", BatchCall("BEGIN", txBegin), 0, 0, None, None)

\* a batch operation from its entry to BEGIN
BatchStart(op, its) ==
    IF its = <<>>
    THEN BatchDone(0, 0, BatchOperationResponse_error(
                            <<"no rows to ", Verb(op).zh>>))
    ELSE Ctl("await", BatchCall("BEGIN", txBegin), 0, 0, None, None)

\* batch_update_rows, batch_insert_rows or batch_delete_rows is invoked
BatchInvoke ==
    /\ pc = "idle"
    /\ \E op \in BatchOps : \E its \in BatchInputs(op) :
          /\ cmd' = op
          /\ items' = its
          /\ Continue(BatchStart(op, its), <<>>)
    /\ pre' = session.db
    /\ UNCHANGED <<session, input, segVars>>
    /\ UNCHANGED cmdVars

\* the engine answers the call in flight and the batch operation runs on
BatchReply ==
    /\ pc = "await"
    /\ cmd \in BatchOps
    /\ \E o \in EngineOutcomes(pending.sql, session) :
          /\ session' = o.session
          /\ Continue(BatchAfter(cmd, items, pending, index, total_affected,
                                 fail_msg, o),
                      Answered(o))
    /\ UNCHANGED <<cmd, input, items, pre, segVars>>
    /\ UNCHANGED cmdVars

\* the value is handed to the caller (a panic ends the command's task);
\* the connection stays cached for the next command
Return ==
    /\ pc \in {"done", "panicked"}
    /\ pc' = "idle"
    /\ cmd' = "none"
    /\ input' = <<>>
    /\ items' = <<>>
    /\ pending' = NoCall
    /\ index' = 0
    /\ total_affected' = 0
    /\ last_result' = None
    /\ fail_msg' = <<>>
    /\ result' = None
    /\ calls' = <<>>
    /\ pre' = session.db
    /\ UNCHANGED <<session, segVars>>
    /\ UNCHANGED cmdVars

InitCommand ==
    /\ session \in {Session(T, T, "none", "ok") : T \in Tables}
    /\ pc = "idle"
    /\ cmd = "none"
    /\ input = <<>>
    /\ items = <<>>
    /\ pending = NoCall
    /\ index = 0
    /\ total_affected = 0
    /\ last_result = None
    /\ fail_msg = <<>>
    /\ result = None
    /\ calls = <<>>
    /\ pre = session.db
    /\ InitCmdVars

Init ==
    /\ InitCommand
    /\ text = <<>>
    /\ scan = ScanInit

Next == ExecuteSql \/ ExecReply \/ BatchInvoke \/ BatchReply \/ Return

Spec == Init /\ [][Next]_vars

(***************************************************************************)
(* The commands of lib.rs that run the services on the cached connection   *)
(* of one database.  Each invocation is a task; the engine calls of its    *)
(* core call are a script: the calls it issues while each one is answered  *)
(* without error, and what remains to issue after an error.                *)
(***************************************************************************)

Commands == {"execute_sql"} \cup BatchOps

\* the engine calls of the core call of command c when none fails: one or
\* two statements for execute_sql, one item inside a transaction for a
\* batch operation
CoreScripts(c) ==
    IF c = "execute_sql" THEN {<<"statement">>, <<"statement", "statement">>}
    ELSE {<<"BEGIN", "statement", "COMMIT">>}

\* the engine calls that remain after call was answered with an error
ScriptAfterError(c, call) ==
    IF c \in BatchOps /\ call \in {"statement", "COMMIT"} THEN <<"ROLLBACK">>
    ELSE <<>>

\* the lock is granted whoever holds it
CanLock_Always(g) == TRUE

\* state.connections.lock().await is granted when nobody holds the lock
CanLock(g) == g = 0

\* the command is invoked and asks for the lock of the connection table
CmdInvoke(t) ==
    /\ tasks[t].at = "start"
    /\ \E c \in Commands : \E sc \in CoreScripts(c) :
          tasks' = [tasks EXCEPT ![t] = [cmd |-> c, at |-> "locking", script |-> sc]]
    /\ UNCHANGED <<guard, connected, wire>>
    /\ UNCHANGED coreVars

\* the lock is granted: the task holds the guard
CmdLock(t) ==
    /\ tasks[t].at = "locking"
    /\ CanLock(guard)
    /\ guard' = t
    /\ tasks' = [tasks EXCEPT ![t].at = "locked"]
    /\ UNCHANGED <<connected, wire>>
    /\ UNCHANGED coreVars

\* the client is taken from the table, after a connect when the table does
\* not hold it; a failed connect returns Err and drops the guard
CmdClient(t) ==
    /\ tasks[t].at = "locked"
    /\ \/ /\ connected' = TRUE
          /\ tasks' = [tasks EXCEPT ![t].at = "core"]
          /\ UNCHANGED guard
       \/ /\ ~connected
          /\ tasks' = [tasks EXCEPT ![t].at = "returned", ![t].script = <<>>]
          /\ guard' = IF guard = t THEN 0 ELSE guard
          /\ UNCHANGED connected
    /\ UNCHANGED wire
    /\ UNCHANGED coreVars

\* the core call sends its next engine call on the connection
CmdSend(t) ==
    /\ tasks[t].at = "core"
    /\ tasks[t].script # <<>>
    /\ wire' = Append(wire, [task |-> t, call |-> Head(tasks[t].script)])
    /\ tasks' = [tasks EXCEPT ![t].at = "await"]
    /\ UNCHANGED <<guard, connected>>
    /\ UNCHANGED coreVars

\* the engine answers the call in flight
CmdReply(t) ==
    /\ tasks[t].at = "await"
    /\ \E ok \in BOOLEAN :
          tasks' = [tasks EXCEPT
                      ![t].at = "core",
                      ![t].script =
                          IF ok THEN Tail(@)
                          ELSE ScriptAfterError(tasks[t].cmd, Head(@))]
    /\ UNCHANGED <<guard, connected, wire>>
    /\ UNCHANGED coreVars

\* the core call has returned; the command returns and the guard is dropped
CmdReturn(t) ==
    /\ tasks[t].at = "core"
    /\ tasks[t].script = <<>>
    /\ tasks' = [tasks EXCEPT ![t].at = "returned"]
    /\ guard' = IF guard = t THEN 0 ELSE guard
    /\ UNCHANGED <<connected, wire>>
    /\ UNCHANGED coreVars

InitCommands ==
    /\ InitCommand
    /\ session = Session({}, {}, "none", "ok")
    /\ text = <<>>
    /\ scan = ScanInit

NextCommands ==
    \E t \in Tasks :
        \/ CmdInvoke(t)
        \/ CmdLock(t)
        \/ CmdClient(t)
        \/ CmdSend(t)
        \/ CmdReply(t)
        \/ CmdReturn(t)

SpecCommands == InitCommands /\ [][NextCommands]_vars

\* C28: two commands never have engine calls in flight on the cached
\* connection at the same time: a task holds the lock of the connection
\* table from before it takes the client until its core call has returned,
\* so the calls one command sends on the connection are never interleaved
\* with calls of another (the BEGIN .. COMMIT/ROLLBACK of a batch included)
C28_OneCommandOnTheConnection ==
    /\ Cardinality({t \in Tasks : tasks[t].at = "await"}) <= 1
    /\ \A t \in Tasks : tasks[t].at \in {"locked", "core", "await"} => guard = t
    /\ \A i, j, k \in 1..Len(wire) :
          (i < j /\ j < k /\ wire[i].task = wire[k].task)
          => wire[j].task = wire[i].task

\* a batch has its statement in flight inside its transaction while
\* another command, invoked meanwhile, waits for the lock
C28_Witness ==
    \E t, u \in Tasks :
        /\ t # u
        /\ tasks[t].cmd \in BatchOps /\ tasks[t].at = "await"
        /\ Len(wire) >= 2 /\ wire[Len(wire)] = [task |-> t, call |-> "statement"]
        /\ tasks[u].at = "locking"

(***************************************************************************)
(* Properties of the batch operations and of execute_sql                   *)
(***************************************************************************)

\* the table a query on the session reads
Visible(S) == IF S.txn = "open" THEN S.work ELSE S.db

\* the positions in the log of the calls of one sort
CallsOf(what) == {n \in 1..Len(calls) : calls[n].what = what}

RECURSIVE SumAffected(_, _)
\* the sum of the affected-row counts the engine reported for the calls of
\* the log whose kind is in kinds
SumAffected(log, kinds) ==
    IF log = <<>> THEN 0
    ELSE (IF Head(log).kind \in kinds THEN Head(log).affected ELSE 0)
         + SumAffected(Tail(log), kinds)

RECURSIVE AfterAll(_, _)
\* the table T after the statements sqls, each one applied in turn
AfterAll(sqls, T) ==
    IF sqls = <<>> THEN T
    ELSE AfterAll(Tail(sqls), Apply(Meaning(Head(sqls)), T).table)

Dml == {"Insert", "Update", "Delete"}

\* the statements execute_sql runs
Statements == Segmented[input].statements

\* the kind of every statement of every text, by determine_query_type
StatementKinds ==
    [inp \in ExecInputs |->
        [k \in 1..Len(Segmented[inp].statements) |->
            determine_query_type(Segmented[inp].statements[k])] @@ <<>>] @@ <<>>

\* the kind of statement k of the text in hand
KindOf(k) == StatementKinds[input][k]

\* statement k of a multi-statement run is the first whose result is Error:
\* the statements before it were answered without error, and statement k
\* was refused by the engine or could not be classified
FirstErrorAt(k) ==
    /\ k \in 1..Len(Statements)
    /\ Len(calls) \in {k - 1, k}
    /\ \A j \in 1..(k - 1) : calls[j].index = j /\ calls[j].ok = "ok"
    /\ IF Len(calls) = k THEN calls[k].index = k /\ calls[k].ok = "error"
       ELSE KindOf(k) = "Error"

\* the message of the Error result of statement k
Underlying(k) ==
    IF Len(calls) = k THEN format_error_message(calls[k].error)
    ELSE <<"Unable to determine query type">>

MultiReturned == pc = "done" /\ cmd = "execute_sql" /\ Len(Statements) > 1

\* C1: when a batch operation returns success = false after its BEGIN
\* succeeded and no ROLLBACK it issued failed, the committed table and the
\* table a later query reads are the table of before the call
C1_FailedBatchLeavesTable ==
    (/\ pc = "done" /\ cmd \in BatchOps /\ ~result[1].success
     /\ \E n \in CallsOf("BEGIN") : calls[n].ok = "ok"
     /\ \A n \in CallsOf("ROLLBACK") : calls[n].ok = "ok")
    => session.db = pre /\ Visible(session) = pre

\* an item changed rows, a later one failed and the ROLLBACK succeeded
C1_Witness ==
    /\ pc = "done" /\ cmd \in BatchOps /\ ~result[1].success
    /\ \E n \in CallsOf("ROLLBACK") : calls[n].ok = "ok"
    /\ \E n \in CallsOf("statement") : calls[n].ok = "ok" /\ calls[n].affected > 0
    /\ session.db = pre

\* C2: when the statement of every item and the COMMIT succeed, the batch
\* operation returns success = true without error, rows_affected is the sum
\* of the counts the engine reported, and the table a later query reads is
\* the table of before the call with every item applied
C2_SuccessfulBatch ==
    (/\ pc = "done" /\ cmd \in BatchOps
     /\ Cardinality(CallsOf("statement")) = Len(items)
     /\ \A n \in CallsOf("statement") : calls[n].ok = "ok"
     /\ \E n \in CallsOf("COMMIT") : calls[n].ok = "ok")
    => /\ result[1].success /\ result[1].error = None
       /\ result[1].rows_affected = SumAffected(calls, {"none"})
       /\ Visible(session) = AfterAll([n \in 1..Len(items) |-> Build(cmd, items[n]).sql], pre)
       /\ session.db = Visible(session)

\* two items that each changed a row were committed
C2_Witness ==
    /\ pc = "done" /\ cmd \in BatchOps /\ result[1].success
    /\ Len(items) = 2 /\ result[1].rows_affected = 2
    /\ session.db # pre

\* C3: a batch operation called with an empty item list returns
\* success = false with rows_affected = 0 and makes no engine call
C3_EmptyListNoEngineCall ==
    (cmd \in BatchOps /\ items = <<>>)
    => /\ calls = <<>> /\ pc = "done" /\ session.db = pre
       /\ ~result[1].success /\ result[1].rows_affected = 0

C3_Witness == pc = "done" /\ cmd \in BatchOps /\ items = <<>> /\ result # None

\* C4: in a multi-statement run whose statement k is the first with an
\* Error result, no statement after k is sent and the result is the Error
\* "Error in statement k: " followed by the message of statement k
C4_StopsAtFirstError ==
    /\ (cmd = "execute_sql" /\ Len(calls) > 0)
          => \A n \in 1..(Len(calls) - 1) : calls[n].ok = "ok"
    /\ MultiReturned
          => \A k \in 1..Len(Statements) :
                FirstErrorAt(k)
                => /\ \A n \in 1..Len(calls) : calls[n].index <= k
                   /\ result[1].result_type = "Error"
                   /\ result[1].error =
                         Some(<<"Error in statement ">> \o Decimal(k) \o <<": ">>
                                 \o Underlying(k))

\* the second of three statements was refused by the engine
C4_Witness ==
    /\ MultiReturned /\ Len(Statements) = 3 /\ FirstErrorAt(2)
    /\ Len(calls) = 2 /\ calls[2].error.code = "23505"

\* C5: execute_sql issues no BEGIN, COMMIT or ROLLBACK, and when statement
\* k of a multi-statement run fails the committed table is the table of
\* before the call with the statements 1..k-1 applied
C5_NoTransactionAroundRun ==
    /\ cmd = "execute_sql"
          => /\ \A n \in 1..Len(calls) : calls[n].what = "statement"
             /\ session.txn = "none"
    /\ MultiReturned
          => \A k \in 1..Len(Statements) :
                FirstErrorAt(k)
                => /\ session.db = AfterAll(SubSeq(Statements, 1, k - 1), pre)
                   /\ Visible(session) = session.db

\* the third statement failed and the effects of the first two remain
C5_Witness ==
    /\ MultiReturned /\ FirstErrorAt(3)
    /\ calls[1].affected > 0 /\ calls[2].affected > 0
    /\ session.db # pre

\* C6: when every statement of a multi-statement run succeeds and the last
\* one is an Insert, Update or Delete, the result has the kind of the last
\* statement and affected_rows is the sum of the counts of the statements
\* that reported one
C6_AggregatedCount ==
    (/\ MultiReturned
     /\ Len(calls) = Len(Statements)
     /\ \A n \in 1..Len(calls) : calls[n].ok = "ok"
     /\ KindOf(Len(Statements)) \in Dml)
    => /\ result[1].result_type = KindOf(Len(Statements))
       /\ result[1].affected_rows = Some(SumAffected(calls, Dml))

\* statements of mixed kinds, and the sum is not the count of the last one
C6_Witness ==
    /\ MultiReturned /\ Len(calls) = Len(Statements)
    /\ \A n \in 1..Len(calls) : calls[n].ok = "ok"
    /\ calls[Len(calls)].kind \in Dml
    /\ \E n \in 1..Len(calls) : calls[n].kind \notin Dml
    /\ result[1].affected_rows # Some(calls[Len(calls)].affected)

\* C7: the result execute_sql returns has exactly the fields of its kind
C7_FieldsOfKind ==
    (pc = "done" /\ cmd = "execute_sql")
    => LET r == result[1]
       IN  /\ r.result_type \in QueryResultType
           /\ r.result_type = "Select"
                 => /\ r.columns # None /\ r.rows # None
                    /\ r.affected_rows = None /\ r.error = None
           /\ r.result_type \in Dml
                 => /\ r.affected_rows # None
                    /\ r.columns = None /\ r.rows = None /\ r.error = None
           /\ r.result_type = "Ddl"
                 => /\ r.columns = None /\ r.rows = None
                    /\ r.affected_rows = None /\ r.error = None
           /\ r.result_type = "Error"
                 => /\ r.error # None
                    /\ r.columns = None /\ r.rows = None /\ r.affected_rows = None

\* a multi-statement run that changed rows and ends with a SELECT
C7_Witness ==
    /\ MultiReturned /\ result[1].result_type = "Select"
    /\ total_affected > 0

\* C8: no panic escapes from execute_sql or from a batch operation
C8_NoPanic == pc # "panicked"

\* C13: execute_sql makes no engine call for a statement that cannot be
\* classified; when the run reaches such a statement, after the statements
\* before it were executed, its result is the Error "Unable to determine
\* query type" (under the statement's index in a multi-statement run)
C13_UnclassifiedNotSent ==
    cmd = "execute_sql"
    => /\ \A n \in 1..Len(calls) :
             KindOf(calls[n].index) # "Error"
       /\ pc = "done"
             => \A k \in 1..Len(Statements) :
                   (/\ KindOf(k) = "Error"
                    /\ Len(calls) = k - 1
                    /\ \A j \in 1..(k - 1) : calls[j].ok = "ok")
                   => /\ result[1].result_type = "Error"
                      /\ result[1].error_position = None
                      /\ result[1].error =
                            Some((IF Len(Statements) = 1 THEN <<>>
                                  ELSE <<"Error in statement ">> \o Decimal(k) \o <<": ">>)
                                 \o <<"Unable to determine query type">>)

\* the third statement cannot be classified and the first two changed rows
C13_Witness ==
    /\ MultiReturned /\ Len(Statements) = 3 /\ Len(calls) = 2
    /\ KindOf(3) = "Error"
    /\ calls[1].affected > 0 /\ calls[2].affected > 0
    /\ result[1].result_type = "Error"

\* the positions in the log of the statement of item i
StatementCalls(i) == {n \in CallsOf("statement") : calls[n].index = i}

\* item i of a batch operation whose BEGIN succeeded is the first to fail:
\* the statements of the items before it were executed, and item i could
\* not be built or its statement was refused by the engine
FirstFailureAt(i) ==
    /\ cmd \in BatchOps /\ i \in 1..Len(items)
    /\ \E n \in CallsOf("BEGIN") : calls[n].ok = "ok"
    /\ \A j \in 1..(i - 1) : \E n \in StatementCalls(j) : calls[n].ok = "ok"
    /\ \/ ~Build(cmd, items[i]).ok
       \/ \E n \in StatementCalls(i) : calls[n].ok = "error"

\* the message that item i's failure comes with
FailureCause(i) ==
    IF ~Build(cmd, items[i]).ok THEN <<Build(cmd, items[i]).err>>
    ELSE ErrorText(calls[CHOOSE n \in StatementCalls(i) : TRUE].error)

\* the message msg holds the parts in one piece
Carries(msg, parts) ==
    \E a \in 1..Len(msg) :
        a + Len(parts) - 1 <= Len(msg) /\ SubSeq(msg, a, a + Len(parts) - 1) = parts

\* C14: when item i of a batch operation is the first to fail, the returned
\* failure carries the index i and the underlying message
C14_FailureCarriesIndex ==
    (pc = "done" /\ cmd \in BatchOps)
    => \A i \in 1..Len(items) :
          FirstFailureAt(i)
          => /\ ~result[1].success
             /\ Carries(result[1].error[1], Decimal(i))
             /\ Carries(result[1].error[1], FailureCause(i))

\* C15: no engine call is made by a batch operation whose item list holds
\* a malformed item, nor by execute_sql for an empty text or for a single
\* statement that cannot be classified
C15_InputErrorsBeforeEngine ==
    /\ (cmd \in BatchOps /\ \E i \in 1..Len(items) : ~Build(cmd, items[i]).ok)
          => calls = <<>>
    /\ (/\ cmd = "execute_sql"
        /\ \/ Trim(TextOf(input)) = <<>>
           \/ /\ Len(Statements) = 1
              /\ KindOf(1) = "Error")
          => calls = <<>>

\* C16: when the ROLLBACK a batch operation issues fails, the operation
\* returns a failure whose message does not say that all changes were
\* rolled back
C16_FailedRollbackReported ==
    (/\ pc = "done" /\ cmd \in BatchOps
     /\ \E n \in CallsOf("ROLLBACK") : calls[n].ok = "error")
    => /\ ~result[1].success
       /\ ~Carries(result[1].error[1], <<". All changes have been rolled back">>)

\* C17: a batch response with success = false has rows_affected = 0 and an
\* error message, a response with success = true has no error
C17_FailureReportsNoRows ==
    (pc = "done" /\ cmd \in BatchOps)
    => /\ ~result[1].success
             => /\ result[1].rows_affected = 0
                /\ result[1].error # None /\ result[1].error[1] # <<>>
       /\ result[1].success => result[1].error = None

\* a failure after an earlier item had reported affected rows
C17_Witness ==
    /\ pc = "done" /\ cmd \in BatchOps /\ ~result[1].success
    /\ \E n \in CallsOf("statement") : calls[n].ok = "ok" /\ calls[n].affected > 0
    /\ total_affected > 0

\* the statement texts of the call, in the order segmented or supplied
TextsOfCall ==
    IF cmd \in BatchOps THEN [n \in 1..Len(items) |-> Build(cmd, items[n]).sql]
    ELSE Statements

\* C18: the engine calls of one call are issued one at a time and in order:
\* only the last call of the log can be unanswered, the n-th statement call
\* sends statement n, it is sent only when the statement calls before it
\* were answered without error, and the table it acts on is the table of
\* before the call with the statements 1..n-1 applied
C18_SequentialInOrder ==
    /\ \A n \in 1..(Len(calls) - 1) : calls[n].ok # "pending"
    /\ pc = "await" <=> (calls # <<>> /\ calls[Len(calls)].ok = "pending")
    /\ LET sent == CallsOf("statement")
       IN  \A n \in sent :
              /\ calls[n].index = Cardinality({m \in sent : m <= n})
              /\ \A m \in sent : m < n => calls[m].ok = "ok"
              /\ calls[n].ok = "pending"
                    => /\ pending.sql = TextsOfCall[calls[n].index]
                       /\ Visible(session) =
                             AfterAll(SubSeq(TextsOfCall, 1, calls[n].index - 1), pre)

\* a SELECT sent as the third statement of a run that has changed the table
C18_Witness ==
    /\ cmd = "execute_sql" /\ pc = "await" /\ Len(calls) = 3
    /\ pending.kind = "Select" /\ session.db # pre

\* C20: when item i of a batch operation whose BEGIN succeeded is the first
\* to fail, no COMMIT and no statement of a later item is ever issued, and
\* when the operation returns its engine calls are BEGIN, the statements of
\* the items 1..i-1 in order (and of item i when the engine refused it),
\* then one ROLLBACK, which has been answered
C20_CallsOfFailedBatch ==
    \A i \in 1..Len(items) :
        FirstFailureAt(i)
        => LET m == IF Build(cmd, items[i]).ok THEN i ELSE i - 1
           IN  /\ CallsOf("COMMIT") = {}
               /\ \A n \in CallsOf("statement") : calls[n].index <= m
               /\ pc # "idle"
               /\ pc = "await" => pending.what = "ROLLBACK"
               /\ pc = "done"
                     => /\ Len(calls) = m + 2
                        /\ calls[1].what = "BEGIN"
                        /\ \A j \in 1..m :
                              calls[j + 1].what = "statement" /\ calls[j + 1].index = j
                        /\ calls[m + 2].what = "ROLLBACK"
                        /\ calls[m + 2].ok # "pending"

\* the engine refused the statement of the second item
C20_Witness ==
    /\ pc = "done" /\ FirstFailureAt(2) /\ Build(cmd, items[2]).ok
    /\ Len(calls) = 4 /\ calls[4].what = "ROLLBACK"

\* C21: a batch operation issues COMMIT at most once and only after the
\* statement of every item was answered without error; when the COMMIT
\* fails a ROLLBACK follows it and the operation returns success = false
C21_CommitAfterAllItems ==
    cmd \in BatchOps
    => /\ Cardinality(CallsOf("COMMIT")) <= 1
       /\ \A c \in CallsOf("COMMIT") :
             /\ \A i \in 1..Len(items) :
                   \E n \in StatementCalls(i) : n < c /\ calls[n].ok = "ok"
             /\ calls[c].ok = "error"
                   => /\ \E r \in CallsOf("ROLLBACK") : r > c
                      /\ pc = "done" => ~result[1].success
       /\ (pc = "done" /\ result[1].success)
             => \E c \in CallsOf("COMMIT") : calls[c].ok = "ok"

\* the COMMIT of two items failed and the ROLLBACK that followed was answered
C21_Witness ==
    /\ pc = "done" /\ cmd \in BatchOps /\ Len(items) = 2
    /\ \E c \in CallsOf("COMMIT") : calls[c].ok = "error"
    /\ \E r \in CallsOf("ROLLBACK") : calls[r].ok = "ok"
    /\ ~result[1].success

\* every statement of a multi-statement run was sent and answered without
\* error
MultiSucceeded ==
    /\ MultiReturned
    /\ Len(calls) = Len(Statements)
    /\ \A n \in 1..Len(calls) : calls[n].ok = "ok"

\* C22 (as the code has it): a successful multi-statement run returns the
\* result of its last statement, and its affected_rows is the accumulated
\* sum only when that sum is not zero and the last result carries a count of
\* its own; a last result without a count (Select, Ddl) is returned as it is
C22_SumOnlyOnCountedResult ==
    MultiSucceeded
    => LET sum == SumAffected(calls, Dml)
           r == result[1]
       IN  /\ last_result # None
           /\ r.result_type = last_result[1].result_type
           /\ r.columns = last_result[1].columns
           /\ r.rows = last_result[1].rows
           /\ r.error = last_result[1].error
           /\ r.affected_rows =
                 IF sum > 0 /\ last_result[1].affected_rows # None
                 THEN Some(sum) ELSE last_result[1].affected_rows
           /\ KindOf(Len(Statements)) \notin Dml => r.affected_rows = None

\* a run whose UPDATE changed rows ends with a SELECT, which reports no count
C22_Witness ==
    /\ MultiSucceeded
    /\ SumAffected(calls, Dml) > 0
    /\ result[1].result_type = "Select"
    /\ result[1].affected_rows = None
    /\ calls[1].kind = "Update"

\* C22 (as stated): a successful multi-statement run returns the accumulated
\* sum as affected_rows whenever that sum is not zero, whatever the kind of
\* the last statement
C22_SumWhateverTheKind ==
    (MultiSucceeded /\ SumAffected(calls, Dml) > 0)
    => result[1].affected_rows = Some(SumAffected(calls, Dml))

\* the text of the input is empty once trimmed
TrimmedEmpty == Trim(TextOf(input)) = <<>>

\* C30: execute_sql on a text that is not empty once trimmed and segments
\* into no statement makes no engine call and returns the Error result
\* "No statements to execute"; it returns "SQL statement is empty" exactly
\* when the trimmed text is empty
C30_NoStatementsMessage ==
    (pc = "done" /\ cmd = "execute_sql")
    => /\ (~TrimmedEmpty /\ Statements = <<>>)
             => /\ calls = <<>>
                /\ result[1] = QR_error(<<"No statements to execute">>, None)
       /\ result[1].error = Some(<<"SQL statement is empty">>) <=> TrimmedEmpty
       /\ TrimmedEmpty => calls = <<>> /\ result[1].result_type = "Error"

\* a text of semicolons and blanks only
C30_Witness ==
    /\ pc = "done" /\ cmd = "execute_sql"
    /\ Len(input) >= 2 /\ ~TrimmedEmpty /\ Statements = <<>>
    /\ \E k \in 1..Len(TextOf(input)) : TextOf(input)[k] = ";"
    /\ result[1].error = Some(<<"No statements to execute">>)
    /\ calls = <<>>

(***************************************************************************)
(* A run of the segmenter alone, one turn of its loop at a time            *)
(***************************************************************************)

MaxFrags == 4

\* the texts are made of these fragments
Fragments ==
    << <<"a">>, <<";">>, <<"'">>, <<"-", "-">>, <<"\n">>, <<"/", "*">>,
       <<"*", "/">>, <<"\\">> >>

RECURSIVE Concat(_)
Concat(fs) == IF fs = <<>> THEN <<>> ELSE Fragments[Head(fs)] \o Concat(Tail(fs))

SegTexts ==
    {Concat(fs) : fs \in UNION {[1..n -> 1..Len(Fragments)] : n \in 0..MaxFrags}}

\* one turn of the while loop
SegStep ==
    /\ ~scan.panic /\ ~scan.returned
    /\ scan.i < Len(text)
    /\ scan' = ScanStep(text, scan)
    /\ UNCHANGED <<text, session, pc, cmd, input, items, pending, index,
                   total_affected, last_result, fail_msg, result, calls, pre>>
    /\ UNCHANGED cmdVars

\* the loop has ended: the remainder is pushed and the statements returned
SegFinish ==
    /\ ~scan.panic /\ ~scan.returned
    /\ scan.i >= Len(text)
    /\ scan' = ScanFinish(text, scan)
    /\ UNCHANGED <<text, session, pc, cmd, input, items, pending, index,
                   total_affected, last_result, fail_msg, result, calls, pre>>
    /\ UNCHANGED cmdVars

InitSeg ==
    /\ InitCommand
    /\ session = Session({}, {}, "none", "ok")
    /\ text \in SegTexts
    /\ scan = ScanInit

NextSeg == SegStep \/ SegFinish

SpecSeg == InitSeg /\ [][NextSeg]_vars

(***************************************************************************)
(* A run of the segmenter on texts that hold a character of two bytes      *)
(***************************************************************************)

MaxWide == 4

\* the texts are made of a letter of two bytes, a letter of one byte, the
\* semicolon and the blank
WideTexts == UNION {[1..n -> {"é", "a", ";", " "}] : n \in 0..MaxWide}

InitWide ==
    /\ InitCommand
    /\ session = Session({}, {}, "none", "ok")
    /\ text \in WideTexts
    /\ scan = ScanInit

SpecWide == InitWide /\ [][NextSeg]_vars

(***************************************************************************)
(* A run of the classifier alone, on statements made of leading blanks and *)
(* comments, a first word in some letter case, and a remainder             *)
(***************************************************************************)

MaxLead == 3

\* the blanks and comments that may precede the first word
LeadFragments ==
    << <<" ">>, <<"\n">>, <<"-", "-", " ", "c", "\n">>,
       <<"/", "*", " ", "c", " ", "*", "/">> >>

\* the first words, in upper case, each with the kind the contract gives it
FirstWords ==
    << [word |-> kwSELECT, kind |-> "Select"],
       [word |-> kwWITH, kind |-> "Select"],
       [word |-> kwINSERT, kind |-> "Insert"],
       [word |-> kwUPDATE, kind |-> "Update"],
       [word |-> kwDELETE, kind |-> "Delete"],
       [word |-> kwCREATE, kind |-> "Ddl"],
       [word |-> kwALTER, kind |-> "Ddl"],
       [word |-> kwDROP, kind |-> "Ddl"],
       [word |-> kwTRUNCATE, kind |-> "Ddl"],
       [word |-> txBegin, kind |-> "Error"],
       [word |-> <<"*", " ", "F", "R", "O", "M", " ", "T">>, kind |-> "Error"] >>

LetterCases == {"upper", "lower", "mixed"}

\* the lower-case letter of an upper-case letter (any other character is
\* left as it is)
LowerChar(c) ==
    IF \E k \in 1..Len(UpperLetters) : UpperLetters[k] = c
    THEN LowerLetters[CHOOSE k \in 1..Len(UpperLetters) : UpperLetters[k] = c]
    ELSE c

\* an upper-case word written in the letter case lc ("mixed": every second
\* letter in lower case)
InCase(word, lc) ==
    [k \in 1..Len(word) |->
        IF lc = "lower" \/ (lc = "mixed" /\ k % 2 = 0) THEN LowerChar(word[k])
        ELSE word[k]]

Remainders == {<<>>, <<" ", "1">>}

RECURSIVE LeadText(_)
LeadText(fs) ==
    IF fs = <<>> THEN <<>> ELSE LeadFragments[Head(fs)] \o LeadText(Tail(fs))

ClassifyInputs ==
    [lead : UNION {[1..n -> 1..Len(LeadFragments)] : n \in 0..MaxLead},
     word : 1..Len(FirstWords), lc : LetterCases, rest : Remainders]

\* the statement text of an input
ClassifyText(inp) ==
    LeadText(inp.lead) \o InCase(FirstWords[inp.word].word, inp.lc) \o inp.rest

\* determine_query_type is applied to the text
Classify ==
    /\ pc = "idle"
    /\ cmd = "none"
    /\ LET query_type == determine_query_type(text)
       IN  /\ pc' = IF query_type = "Panic" THEN "panicked" ELSE "done"
           /\ result' = IF query_type = "Panic" THEN None ELSE Some(query_type)
    /\ cmd' = "determine_query_type"
    /\ UNCHANGED <<session, input, items, pending, index, total_affected,
                   last_result, fail_msg, calls, pre, segVars>>
    /\ UNCHANGED cmdVars

InitClassify ==
    /\ session = Session({}, {}, "none", "ok")
    /\ pc = "idle"
    /\ cmd = "none"
    /\ input \in ClassifyInputs
    /\ items = <<>>
    /\ pending = NoCall
    /\ index = 0
    /\ total_affected = 0
    /\ last_result = None
    /\ fail_msg = <<>>
    /\ result = None
    /\ calls = <<>>
    /\ pre = {}
    /\ text = ClassifyText(input)
    /\ scan = ScanInit
    /\ InitCmdVars

NextClassify == Classify

SpecClassify == InitClassify /\ [][NextClassify]_vars

(***************************************************************************)
(* A run of the classifier on statements that hold comments and blanks     *)
(* only                                                                    *)
(***************************************************************************)

MaxComments == 3

\* a line comment without and with its newline, a closed block comment, a
\* block comment that is never closed, a blank
CommentFragments ==
    << <<"-", "-", " ", "c">>, <<"-", "-", " ", "c", "\n">>,
       <<"/", "*", " ", "c", " ", "*", "/">>, <<"/", "*", " ", "c">>, <<" ">> >>

RECURSIVE CommentText(_)
CommentText(fs) ==
    IF fs = <<>> THEN <<>> ELSE CommentFragments[Head(fs)] \o CommentText(Tail(fs))

CommentTexts ==
    {CommentText(fs) :
        fs \in UNION {[1..n -> 1..Len(CommentFragments)] : n \in 1..MaxComments}}

InitComments ==
    /\ InitCommand
    /\ session = Session({}, {}, "none", "ok")
    /\ text \in CommentTexts
    /\ scan = ScanInit

SpecComments == InitComments /\ [][NextClassify]_vars

(***************************************************************************)
(* A run of the classifier on statements whose first word is a keyword, a  *)
(* keyword with more identifier characters behind it, or another word      *)
(***************************************************************************)

\* what may stand behind the keyword within the first word
WordSuffixes == << <<>>, <<"X">>, <<"_", "1">>, <<"(", "1", ")">> >>

\* first words that hold no keyword of the classifier
OtherWords ==
    << txBegin, txCommit, <<"E","X","P","L","A","I","N">>, <<"S","E","T">> >>

Keywords ==
    <<kwSELECT, kwWITH, kwINSERT, kwUPDATE, kwDELETE, kwCREATE, kwALTER, kwDROP,
      kwTRUNCATE>>

TokenWords ==
    {Keywords[k] \o WordSuffixes[x] : k \in 1..Len(Keywords), x \in 1..Len(WordSuffixes)}
    \cup {OtherWords[k] : k \in 1..Len(OtherWords)}

TokenInputs ==
    [lead : {<<>>} \cup {<<k>> : k \in 1..Len(LeadFragments)},
     word : TokenWords,
     rest : Remainders]

InitTokens ==
    /\ session = Session({}, {}, "none", "ok")
    /\ pc = "idle"
    /\ cmd = "none"
    /\ input \in TokenInputs
    /\ items = <<>>
    /\ pending = NoCall
    /\ index = 0
    /\ total_affected = 0
    /\ last_result = None
    /\ fail_msg = <<>>
    /\ result = None
    /\ calls = <<>>
    /\ pre = {}
    /\ text = LeadText(input.lead) \o input.word \o input.rest
    /\ scan = ScanInit
    /\ InitCmdVars

SpecTokens == InitTokens /\ [][NextClassify]_vars

(***************************************************************************)
(* A run of format_value alone                                             *)
(***************************************************************************)

MaxStr == 3

\* the characters the string values are made of
StrChars == {"a", "'", "\\"}

Strs == UNION {[1..n -> StrChars] : n \in 0..MaxStr}

Numbers == {0, 1, 9, 10, 42, 100}

\* the values: null, the booleans, numbers, strings, and arrays or objects
\* given by their JSON text
JsonValues ==
    {JNull, JBool(TRUE), JBool(FALSE)} \cup {JNumber(n) : n \in Numbers}
    \cup {JString(str) : str \in Strs}
    \cup {JStructured(<<"[", "\"">> \o str \o <<"\"", "]">>) :
             str \in {x \in Strs : \A k \in 1..Len(x) : x[k] # "\\"}}

\* format_value is applied to the value; text is the literal it returns
FormatValue ==
    /\ pc = "idle"
    /\ cmd = "none"
    /\ text' = format_value(items[1])
    /\ pc' = "done"
    /\ cmd' = "format_value"
    /\ UNCHANGED <<session, input, items, pending, index, total_affected,
                   last_result, fail_msg, result, calls, pre, scan>>
    /\ UNCHANGED cmdVars

InitFormat ==
    /\ session = Session({}, {}, "none", "ok")
    /\ pc = "idle"
    /\ cmd = "none"
    /\ input = <<>>
    /\ \E v \in JsonValues : items = <<v>>
    /\ pending = NoCall
    /\ index = 0
    /\ total_affected = 0
    /\ last_result = None
    /\ fail_msg = <<>>
    /\ result = None
    /\ calls = <<>>
    /\ pre = {}
    /\ text = <<>>
    /\ scan = ScanInit
    /\ InitCmdVars

NextFormat == FormatValue

SpecFormat == InitFormat /\ [][NextFormat]_vars

(***************************************************************************)
(* A run of the statement builders alone, on one item that holds a string  *)
(* value                                                                   *)
(***************************************************************************)

MaxVal == 3

\* the string values: letters, quotes, backslashes and semicolons
ValStrs == UNION {[1..n -> StrChars \cup {";"}] : n \in 0..MaxVal}

\* one item of operation op with the string value str in it
ItemWith(op, str) ==
    CASE op = "batch_update_rows" ->
            [primary_key |-> << <<<<"k">>, JNumber(1)>> >>,
             changes |-> << <<<<"v">>, JString(str)>> >>]
      [] op = "batch_insert_rows" -> << <<<<"v">>, JString(str)>> >>
      [] OTHER -> << <<<<"k">>, JString(str)>> >>

\* the statement of the item is built; text is the statement
Synthesize ==
    /\ pc = "idle"
    /\ cmd \in BatchOps
    /\ text' = Build(cmd, items[1]).sql
    /\ pc' = "done"
    /\ UNCHANGED <<session, cmd, input, items, pending, index, total_affected,
                   last_result, fail_msg, result, calls, pre, scan>>
    /\ UNCHANGED cmdVars

InitSynth ==
    /\ session = Session({}, {}, "none", "ok")
    /\ pc = "idle"
    /\ cmd \in BatchOps
    /\ input \in ValStrs
    /\ items = <<ItemWith(cmd, input)>>
    /\ pending = NoCall
    /\ index = 0
    /\ total_affected = 0
    /\ last_result = None
    /\ fail_msg = <<>>
    /\ result = None
    /\ calls = <<>>
    /\ pre = {}
    /\ text = <<>>
    /\ scan = ScanInit
    /\ InitCmdVars

SpecSynth == InitSynth /\ [][Synthesize]_vars

(***************************************************************************)
(* The opaque regions of a text, by the grammar of the segmenter's         *)
(* contract: a string runs from a quote to the next quote that is neither  *)
(* doubled nor escaped by a backslash, a line comment from "--" to the     *)
(* newline, a block comment from the opening to the first closing.         *)
(* Positions are 0-based; a region that is never closed runs to the end.   *)
(***************************************************************************)

Least(S) == CHOOSE x \in S : \A y \in S : x <= y

\* one past the last position of the line comment opened at p
LineCommentEnd(t, p) ==
    LET nl == {q \in (p + 2)..(Len(t) - 1) : t[q + 1] = "\n"}
    IN  IF nl = {} THEN Len(t) ELSE Least(nl) + 1

\* one past the last position of the block comment opened at p
BlockCommentEnd(t, p) ==
    LET cl == {q \in (p + 2)..(Len(t) - 2) : t[q + 1] = "*" /\ t[q + 2] = "/"}
    IN  IF cl = {} THEN Len(t) ELSE Least(cl) + 2

\* the block comment opened at p is closed
BlockClosed(t, p) ==
    \E q \in (p + 2)..(Len(t) - 2) : t[q + 1] = "*" /\ t[q + 2] = "/"

RECURSIVE StringEnd(_, _)
\* one past the closing quote of the string whose inside continues at q
StringEnd(t, q) ==
    IF q >= Len(t) THEN Len(t)
    ELSE IF t[q + 1] = "\\" THEN StringEnd(t, q + 2)
    ELSE IF t[q + 1] = "'" /\ q + 1 < Len(t) /\ t[q + 2] = "'" THEN StringEnd(t, q + 2)
    ELSE IF t[q + 1] = "'" THEN q + 1
    ELSE StringEnd(t, q + 1)

RECURSIVE StringClosed(_, _)
\* the string whose inside continues at q has a closing quote
StringClosed(t, q) ==
    IF q >= Len(t) THEN FALSE
    ELSE IF t[q + 1] = "\\" THEN StringClosed(t, q + 2)
    ELSE IF t[q + 1] = "'" /\ q + 1 < Len(t) /\ t[q + 2] = "'" THEN StringClosed(t, q + 2)
    ELSE IF t[q + 1] = "'" THEN TRUE
    ELSE StringClosed(t, q + 1)

RECURSIVE Regions(_, _)
\* the regions that begin at or after p, as pairs <<position, kind>>
Regions(t, p) ==
    LET Region(e, kind) == {<<q, kind>> : q \in p..(e - 1)} \cup Regions(t, e)
    IN  IF p >= Len(t) THEN {}
        ELSE IF p + 1 < Len(t) /\ t[p + 1] = "-" /\ t[p + 2] = "-"
        THEN Region(LineCommentEnd(t, p), "line_comment")
        ELSE IF p + 1 < Len(t) /\ t[p + 1] = "/" /\ t[p + 2] = "*"
        THEN Region(BlockCommentEnd(t, p),
                    IF BlockClosed(t, p) THEN "block_comment" ELSE "unclosed")
        ELSE IF t[p + 1] = "'"
        THEN Region(StringEnd(t, p + 1),
                    IF StringClosed(t, p + 1) THEN "string" ELSE "unclosed")
        ELSE Regions(t, p + 1)

Opaque(t) == {pk[1] : pk \in Regions(t, 0)}

\* the positions inside a line comment or a closed block comment
InComment(t) ==
    {pk[1] : pk \in {x \in Regions(t, 0) : x[2] \in {"line_comment", "block_comment"}}}

\* every string and every block comment of the text is closed
Balanced(t) == \A pk \in Regions(t, 0) : pk[2] # "unclosed"

\* the text holds nothing but blanks and comments
BlankOrCommentsOnly(t) ==
    \A p \in 0..(Len(t) - 1) : t[p + 1] \in Whitespace \/ p \in InComment(t)

(***************************************************************************)
(* Properties of the segmenter                                             *)
(***************************************************************************)

C10_BlankOrCommentsYieldNothing ==
    (scan.returned /\ BlankOrCommentsOnly(text)) => scan.statements = <<>>

\* C11: for a text whose strings and block comments are all closed, the
\* statements joined with ";" segment into the same statements again
C11_RoundTrip ==
    (scan.returned /\ Balanced(text))
    => LET again == parse_sql_statements(Join(scan.statements, <<";">>))
       IN  ~again.panic /\ again.statements = scan.statements

\* C23: at every turn of the scan at most one of in_string,
\* in_line_comment and in_block_comment is set and escape_next is set only
\* inside a string; the index never passes the end of the text and every
\* turn of the loop moves it forward, so the loop takes at most one turn per
\* character
C23_FlagsExclusiveIndexAdvances ==
    /\ ~(scan.in_string /\ scan.in_line_comment)
    /\ ~(scan.in_string /\ scan.in_block_comment)
    /\ ~(scan.in_line_comment /\ scan.in_block_comment)
    /\ scan.escape_next => scan.in_string
    /\ scan.i <= Len(text)
    /\ (~scan.panic /\ ~scan.returned /\ scan.i < Len(text))
          => LET next == ScanStep(text, scan)
             IN  next.panic \/ (next.i > scan.i /\ next.i <= Len(text))

\* the scan has reached the end of a text behind a line comment with a
\* backslash pending inside a string
C23_Witness ==
    /\ scan.escape_next /\ scan.in_string
    /\ ~scan.returned /\ scan.i = Len(text) /\ Len(text) >= 5
    /\ text[1] = "-" /\ text[2] = "-"

\* the scan stands inside a string, no escape pending, with a turn to take
InsideString ==
    /\ ~scan.panic /\ ~scan.returned /\ scan.i < Len(text)
    /\ scan.in_string /\ ~scan.escape_next

\* position p of the text holds a semicolon
SemicolonAt(p) == p \in 0..(Len(text) - 1) /\ text[p + 1] = ";"

\* the text with every quote that lies inside a comment made a letter
QuotesInCommentsOut(t) ==
    [k \in 1..Len(t) |->
        IF t[k] = "'" /\ (k - 1) \in InComment(t) THEN "a" ELSE t[k]]

RECURSIVE Between(_, _, _)
\* the pieces of t from position a on, cut at the positions of terms
Between(t, a, terms) ==
    LET later == {p \in terms : p >= a}
    IN  IF later = {} THEN <<SubSeq(t, a + 1, Len(t))>>
        ELSE <<SubSeq(t, a + 1, Least(later))>> \o Between(t, Least(later) + 1, terms)

\* the terminators of t: its semicolons outside strings and comments
Terminators(t) ==
    {p \in 0..(Len(t) - 1) : t[p + 1] = ";" /\ p \notin Opaque(t)}

\* the trimmed pieces of t between its terminators, the empty ones left out
TrimmedPieces(t) ==
    LET pieces == Between(t, 0, Terminators(t))
        trimmed == [k \in 1..Len(pieces) |-> Trim(pieces[k])]
        NonEmpty(x) == x # <<>>
    IN  SelectSeq(trimmed, NonEmpty)

\* C25: the scan of every text returns, and the statements it returns are
\* the non-empty trimmed pieces of the text between its terminators, in
\* order, also when the text holds characters of more than one byte
C25_StatementsAreTrimmedPieces ==
    /\ ~scan.panic
    /\ scan.returned => scan.statements = TrimmedPieces(text)

(***************************************************************************)
(* Properties of the classifier                                            *)
(***************************************************************************)

\* C12: whatever blanks and comments precede the first word and whatever
\* its letter case, SELECT and WITH classify as Select, INSERT as Insert,
\* UPDATE as Update, DELETE as Delete, CREATE, ALTER, DROP and TRUNCATE as
\* Ddl, and a first word that is none of them as Error
C12_ClassifiesFirstKeyword ==
    (cmd = "determine_query_type" /\ pc # "idle")
    => pc = "done" /\ result = Some(FirstWords[input.word].kind)

\* a DDL keyword in mixed case behind a line comment and a block comment
C12_Witness ==
    /\ cmd = "determine_query_type" /\ pc = "done"
    /\ input.lc = "mixed" /\ FirstWords[input.word].word = kwTRUNCATE
    /\ \E a, b \in 1..Len(input.lead) : input.lead[a] = 3 /\ input.lead[b] = 4
    /\ result = Some("Ddl")

\* C26: determine_query_type returns, and returns Error (the unclassified
\* kind), for every statement that holds comments and blanks only: line
\* comments with or without their newline, closed block comments, a block
\* comment that is never closed
C26_CommentsOnlyUnclassified ==
    (cmd = "determine_query_type" /\ pc # "idle" /\ text \in CommentTexts)
    => pc = "done" /\ result = Some("Error")

\* the characters of an identifier or keyword
IdentChars ==
    {UpperLetters[k] : k \in 1..Len(UpperLetters)}
    \cup {LowerLetters[k] : k \in 1..Len(LowerLetters)}
    \cup {DigitChar(n) : n \in 0..9} \cup {"_"}

RECURSIVE FirstToken(_)
\* the longest run of identifier characters at the head of s
FirstToken(s) ==
    IF s = <<>> \/ Head(s) \notin IdentChars THEN <<>>
    ELSE <<Head(s)>> \o FirstToken(Tail(s))

\* the kind of a statement whose first token is tok
KindOfToken(tok) ==
    IF \E k \in 1..Len(Keywords) : Keywords[k] = tok
    THEN FirstWords[CHOOSE k \in 1..Len(Keywords) : Keywords[k] = tok].kind
    ELSE "Error"

\* C27: determine_query_type decides on the first token as a whole: the
\* statement has the kind of a keyword only when its first token is exactly
\* that keyword, and is Error (unclassified) when the token only begins
\* with a keyword or is another word such as BEGIN, COMMIT, EXPLAIN, SET
C27_FirstTokenAsAWhole ==
    (cmd = "determine_query_type" /\ pc # "idle" /\ input \in TokenInputs)
    => /\ pc = "done"
       /\ result = Some(KindOfToken(FirstToken(ToUppercase(input.word \o input.rest))))

(***************************************************************************)
(* Properties of format_value                                              *)
(***************************************************************************)

RECURSIVE Undoubled(_)
\* the text with every pair of quotes made one quote; ok is FALSE when the
\* text holds a quote that is not part of a pair
Undoubled(str) ==
    IF str = <<>> THEN [ok |-> TRUE, text |-> <<>>]
    ELSE IF Head(str) = "'"
    THEN IF Len(str) >= 2 /\ str[2] = "'"
         THEN LET rest == Undoubled(SubSeq(str, 3, Len(str)))
              IN  [ok |-> rest.ok, text |-> <<"'">> \o rest.text]
         ELSE [ok |-> FALSE, text |-> <<>>]
    ELSE LET rest == Undoubled(Tail(str))
         IN  [ok |-> rest.ok, text |-> <<Head(str)>> \o rest.text]

RECURSIVE LiteralEnd(_, _)
\* the 1-based position of the quote that ends the SQL literal whose
\* inside continues at position q: the first quote that is not doubled
\* (0 when there is none)
LiteralEnd(lit, q) ==
    IF q > Len(lit) THEN 0
    ELSE IF lit[q] = "'"
    THEN IF q < Len(lit) /\ lit[q + 1] = "'" THEN LiteralEnd(lit, q + 2) ELSE q
    ELSE LiteralEnd(lit, q + 1)

RECURSIVE ParseDecimal(_)
\* the number a text of decimal digits stands for
ParseDecimal(digits) ==
    IF digits = <<>> THEN 0
    ELSE 10 * ParseDecimal(SubSeq(digits, 1, Len(digits) - 1))
         + (CHOOSE d \in 0..9 : DigitChar(d) = digits[Len(digits)])

\* C19: the literal of a string value is the value with every quote
\* doubled between one pair of quotes: undoubling the inside gives the
\* value back and the literal ends at its last character; null gives NULL,
\* a boolean true or false, a number its decimal text
C19_FormatValueEscapes ==
    (cmd = "format_value" /\ pc = "done")
    => LET v == items[1]
           inside == SubSeq(text, 2, Len(text) - 1)
       IN  /\ v.type \in {"string", "structured"}
                 => /\ Len(text) >= 2 /\ text[1] = "'" /\ text[Len(text)] = "'"
                    /\ Undoubled(inside).ok /\ Undoubled(inside).text = v.str
                    /\ LiteralEnd(text, 2) = Len(text)
           /\ v.type = "null" => text = <<"N", "U", "L", "L">>
           /\ v.type = "bool"
                 => text = IF v.bool THEN <<"t", "r", "u", "e">>
                           ELSE <<"f", "a", "l", "s", "e">>
           /\ v.type = "number"
                 => /\ text # <<>>
                    /\ \A k \in 1..Len(text) : \E d \in 0..9 : text[k] = DigitChar(d)
                    /\ Len(text) > 1 => text[1] # "0"
                    /\ ParseDecimal(text) = v.num

\* a string value that begins and ends with a quote
C19_Witness ==
    /\ cmd = "format_value" /\ pc = "done"
    /\ items[1].type = "string" /\ Len(items[1].str) = 3
    /\ items[1].str[1] = "'" /\ items[1].str[3] = "'"
    /\ Len(text) = 7

\* C29: the literal format_value makes of a string value is one string
\* token for the segmenter: the statement a batch operation builds with the
\* value in it segments into exactly that one statement
C29_SynthesizedStatementIsOne ==
    (pc = "done" /\ cmd \in BatchOps /\ input \in ValStrs)
    => LET parsed == parse_sql_statements(text)
       IN  ~parsed.panic /\ parsed.statements = <<text>>

====
